---- MODULE Spec2Model ----
(***************************************************************************)
(* dns-client (src/dns.go, latest revision, lines 1-389): the DNS wire     *)
(* codec (ReadName, ReadQuestion, ReadResourceRecord, SerializeName),      *)
(* the response header validator and the request/response pipeline of     *)
(* main.                                                                   *)
(*                                                                         *)
(* A Go string and a []byte are both modelled as a sequence of bytes       *)
(* (0..255); '.' is byte 46.  A *bytes.Reader is the pair (buffer, index): *)
(* the buffer b is 1-based here, so the byte at reader index i is b[i+1].  *)
(***************************************************************************)
EXTENDS Integers, Sequences, FiniteSets, TLC

VARIABLES
    urls,      \* the names to ask for (line 310)
    buf,       \* the bytes under the reader (resBuf[:n], line 360)
    pos,       \* the reader's index r.i
    pc,        \* position in the running program
    request,   \* DnsRequest  (line 312)
    reqBuf,    \* the serialized query (line 332)
    response,  \* DnsResponse (line 361)
    result,    \* what the last codec call returned
    failure,   \* the value the program panicked with, "" when it has not
    log        \* the pipeline steps taken so far, in order

vars == <<urls, buf, pos, pc, request, reqBuf, response, result, failure, log>>

----------------------------------------------------------------------------
(* Bounds of the model *)

\* longest arbitrary byte buffer handed to the decoders
MaxBuf == 4
\* most bytes cut from the end of a well-formed message
MaxCut == 3
\* most labels of a name handed to SerializeName
MaxLabels == 4
\* most names in main's url list
MaxUrls == 2
\* most resource records in a response
MaxAnswers == 2

----------------------------------------------------------------------------
(* Program constants *)

\* record types, src/dns.go:12-29
A == 1
NS == 2
CNAME == 5
\* record class, src/dns.go:31-36
INClass == 1
\* '.', the separator of strings.Split / the byte appended after a label
Dot == 46
\* 0xc0, the compression mask of line 156
PointerMask == 192
\* size of the wire header read by binary.Read into DnsHeader (six uint16)
HeaderSize == 12

Min(a, b) == IF a < b THEN a ELSE b

Zeros(n) == [k \in 1 .. n |-> 0]

\* s[from+1 .. from+n], the Go slice s[from : from+n]
Slice(s, from, n) == [k \in 1 .. n |-> s[from + k]]

----------------------------------------------------------------------------
(* Results of the codec functions.  kind is                                *)
(*   "ok"             the call returned a value and a nil error            *)
(*   "err"            the call returned a non-nil error (err names it)     *)
(*   "panic"          the call panicked (a run-time error of Go)           *)
(*   "stack_overflow" the recursion never returns: Go ends the process     *)
(*                    with "fatal error: stack overflow"                   *)
(* pos is the reader index the call leaves behind; short says that some    *)
(* read of the call got fewer bytes than it asked for.                     *)

Ok(v, p, sh) == [kind |-> "ok", val |-> v, err |-> "", pos |-> p, short |-> sh]

Err(v, e, p, sh) == [kind |-> "err", val |-> v, err |-> e, pos |-> p, short |-> sh]

Abort(k, e, p, sh) == [kind |-> k, val |-> <<>>, err |-> e, pos |-> p, short |-> sh]

----------------------------------------------------------------------------
(* bytes.Reader and encoding/binary, as the code uses them *)

\* r.ReadByte() succeeds iff r.i < len(r.s)
CanReadByte(b, i) == i < Len(b)

\* r.Read(p) with len(p) = n: io.EOF when r.i >= len(r.s) (also for n = 0),
\* otherwise copies min(n, remaining) bytes, WITHOUT an error on a short copy.
\* data is p after the call: the bytes copied, then the zeros make() left.
ReaderRead(b, i, n) ==
    IF i >= Len(b)
    THEN [eof |-> TRUE, data |-> Zeros(n), pos |-> i, short |-> n > 0]
    ELSE LET got == Min(n, Len(b) - i)
         IN [eof |-> FALSE,
             data |-> Slice(b, i, got) \o Zeros(n - got),
             pos |-> i + got,
             short |-> got < n]

RECURSIVE BigEndian(_)
\* the unsigned big-endian value of a byte sequence
BigEndian(bs) ==
    IF bs = <<>> THEN 0
    ELSE BigEndian(SubSeq(bs, 1, Len(bs) - 1)) * 256 + bs[Len(bs)]

\* binary.Read(r, binary.BigEndian, &x) for an n-byte integer x that was zero:
\* io.ReadFull consumes what is there; with fewer than n bytes left it returns an
\* error (which every caller in dns.go drops) and x keeps its zero value.
\* data holds the n bytes x is decoded from.
BinaryRead(b, i, n) ==
    IF Len(b) - i >= n
    THEN [data |-> Slice(b, i, n), pos |-> i + n, short |-> FALSE]
    ELSE [data |-> Zeros(n), pos |-> IF i < Len(b) THEN Len(b) ELSE i, short |-> TRUE]

\* a uint16 from its two big-endian bytes
Uint16(data) == BigEndian(data)

\* an int32 from its four big-endian bytes, two's complement (TTL, line 108)
Int32(data) ==
    (IF data[1] >= 128 THEN data[1] - 256 ELSE data[1]) * 16777216
        + BigEndian(Tail(data))

----------------------------------------------------------------------------
(* ReadName, lines 140-204 *)

\* line 156: length&0xc0 == 0xc0
IsPointer(length) == (length \div 64) * 64 = PointerMask

\* the offset with the six high bits of the first byte dropped
PointerOffsetLowByteOnly(length, nextByte) == nextByte

\* line 162: uint16(length&0b00111111)<<8 | uint16(nextByte)
PointerOffset(length, nextByte) == (length % 64) * 256 + nextByte

\* the trailing dot left in place
KeepLastDot(name) == name

\* line 191: name = name[:len(name)-1]; the caller has checked len(name) > 0
DropLastDot(name) == SubSeq(name, 1, Len(name) - 1)

\* the reader left where the nested call stopped
KeepNestedPosition(saved, after) == after

\* lines 181-185: r.Seek(pos, io.SeekStart) puts the reader back at the index
\* saved at line 165, wherever the nested call (which ended at `after`) left it
RestorePosition(saved, after) == saved

\* the labels read so far replaced by the name the pointer leads to
ReplaceByCompressed(name, compressedName) == compressedName

\* line 179: name += compressedName
AppendCompressed(name, compressedName) == name \o compressedName

RECURSIVE ReadNameLoop(_, _, _, _, _)
\* One iteration of the for loop of line 148 and all that follows it, with the
\* reader at index i and `name` as accumulated so far.  `active` holds the start
\* index of every ReadName call now on the stack: a nested call behaves as a
\* function of the buffer and its start index alone, so a nested call that starts
\* where a call on the stack started repeats it without end.
ReadNameLoop(b, i, name, active, sh) ==
    IF ~CanReadByte(b, i) THEN Err(<<>>, "EOF", i, TRUE)                \* 149-152
    ELSE LET length == b[i + 1] IN
      IF IsPointer(length) THEN                                         \* 156
        IF ~CanReadByte(b, i + 1) THEN Err(<<>>, "EOF", i + 1, TRUE)    \* 158-161
        ELSE LET pointer == PointerOffset(length, b[i + 2])             \* 162
                 saved == i + 2                                         \* 165
             IN IF pointer \in active
                THEN Abort("stack_overflow", "stack overflow", pointer, sh)
                ELSE LET sub == ReadNameLoop(b, pointer, <<>>,          \* 171-175
                                             active \cup {pointer}, sh)
                     IN IF sub.kind = "ok"
                        THEN Ok(AppendCompressed(name, sub.val),        \* 179-186
                                RestorePosition(saved, sub.pos), sub.short)
                        ELSE IF sub.kind = "err"
                        THEN Err(<<>>, sub.err, sub.pos, sub.short)     \* 176-178
                        ELSE sub
      ELSE IF length = 0 THEN                                           \* 189
        IF name = <<>>
        THEN Abort("panic", "slice bounds out of range [:-1]", i + 1, sh)
        ELSE Ok(DropLastDot(name), i + 1, sh)                           \* 191-192, 203
      ELSE LET rd == ReaderRead(b, i + 1, length) IN                    \* 196-197
        IF rd.eof THEN Err(<<>>, "EOF", rd.pos, TRUE)                   \* 198-200
        ELSE ReadNameLoop(b, rd.pos, name \o rd.data \o <<Dot>>,        \* 201
                          active, sh \/ rd.short)

ReadName(b, i) == ReadNameLoop(b, i, <<>>, {i}, FALSE)

----------------------------------------------------------------------------
(* ReadQuestion, lines 206-219, and ReadResourceRecord, lines 221-249 *)

\* var q DnsQuestion / var res DnsResourceRecord: Go's zero values
ZeroQuestion == [QName |-> <<>>, QType |-> 0, QClass |-> 0]

ZeroRecord ==
    [Name |-> <<>>, Type |-> 0, Class |-> 0, TTL |-> 0, RDLength |-> 0, RData |-> <<>>]

ReadQuestion(b, i) ==
    LET n == ReadName(b, i) IN                                          \* 210
    IF n.kind = "err" THEN Err(ZeroQuestion, n.err, n.pos, n.short)     \* 211-213
    ELSE IF n.kind # "ok" THEN n
    ELSE LET t == BinaryRead(b, n.pos, 2)                               \* 216
             c == BinaryRead(b, t.pos, 2)                               \* 217
         IN Ok([QName |-> n.val, QType |-> Uint16(t.data),              \* 218
                QClass |-> Uint16(c.data)],
               c.pos, n.short \/ t.short \/ c.short)

ReadResourceRecord(b, i) ==
    LET n == ReadName(b, i) IN                                          \* 223
    IF n.kind = "err" THEN Err(ZeroRecord, n.err, n.pos, n.short)       \* 224-226
    ELSE IF n.kind # "ok" THEN n
    ELSE LET t == BinaryRead(b, n.pos, 2)                               \* 228
             c == BinaryRead(b, t.pos, 2)                               \* 229
             ttl == BinaryRead(b, c.pos, 4)                             \* 230
             len == BinaryRead(b, ttl.pos, 2)                           \* 231
             sh == n.short \/ t.short \/ c.short \/ ttl.short \/ len.short
             res == [Name |-> n.val, Type |-> Uint16(t.data),
                     Class |-> Uint16(c.data), TTL |-> Int32(ttl.data),
                     RDLength |-> Uint16(len.data), RData |-> <<>>]
         IN IF res.Type \in {CNAME, NS}                                 \* 233-234
            THEN LET d == ReadName(b, len.pos) IN                       \* 235
                 IF d.kind = "err" THEN Err(res, d.err, d.pos, sh \/ d.short)
                 ELSE IF d.kind # "ok" THEN d
                 ELSE Ok([res EXCEPT !.RData = d.val], d.pos, sh \/ d.short)  \* 239
            ELSE LET rd == ReaderRead(b, len.pos, res.RDLength) IN      \* 241-242
                 IF rd.eof
                 THEN Err([res EXCEPT !.RData = rd.data], "EOF", rd.pos, sh \/ rd.short)
                 ELSE Ok([res EXCEPT !.RData = rd.data], rd.pos, sh \/ rd.short)

----------------------------------------------------------------------------
(* SerializeName, lines 251-259, and SerializeQuestion, lines 261-265 *)

\* the index of the first Dot of s, 0 when it has none
FirstDot(s) ==
    IF \E k \in 1 .. Len(s) : s[k] = Dot
    THEN CHOOSE k \in 1 .. Len(s) : s[k] = Dot /\ \A j \in 1 .. k - 1 : s[j] # Dot
    ELSE 0

RECURSIVE Split(_)
\* strings.Split(s, "."): n separators give n+1 parts, empty ones included
Split(s) ==
    LET k == FirstDot(s) IN
    IF k = 0 THEN <<s>>
    ELSE <<SubSeq(s, 1, k - 1)>> \o Split(SubSeq(s, k + 1, Len(s)))

\* byte(len(label)), line 254: the conversion keeps the low 8 bits
LengthByte(label) == Len(label) % 256

RECURSIVE WriteLabels(_)
\* the loop of lines 253-256
WriteLabels(labels) ==
    IF labels = <<>> THEN <<>>
    ELSE <<LengthByte(Head(labels))>> \o Head(labels) \o WriteLabels(Tail(labels))

SerializeName(name) == WriteLabels(Split(name)) \o <<0>>

\* binary.Write of a uint16 / of a 32-bit value, big-endian
U16(v) == <<(v \div 256) % 256, v % 256>>

U32(v) == U16((v \div 65536) % 65536) \o U16(v % 65536)

\* returns what buf holds after the call
SerializeQuestion(b, question) ==
    b \o SerializeName(question.QName) \o U16(question.QType) \o U16(question.QClass)

----------------------------------------------------------------------------
(* DnsFlags, lines 38-63, and DnsHeader, lines 68-75 *)

QR(f) == f \div 32768
OpCode(f) == (f \div 2048) % 16
AA(f) == (f \div 1024) % 2
TC(f) == (f \div 512) % 2
RD(f) == (f \div 256) % 2
RA(f) == (f \div 128) % 2
Z(f) == (f \div 16) % 8
RCode(f) == f % 16

ZeroHeader ==
    [Id |-> 0, Flags |-> 0, QdCount |-> 0, AnCount |-> 0, NsCount |-> 0, ArCount |-> 0]

\* the header written with flags before id
WriteHeaderFlagsFirst(h) ==
    <<(h.Flags \div 256) % 256, h.Flags % 256, (h.Id \div 256) % 256, h.Id % 256,
      (h.QdCount \div 256) % 256, h.QdCount % 256, (h.AnCount \div 256) % 256, h.AnCount % 256,
      (h.NsCount \div 256) % 256, h.NsCount % 256, (h.ArCount \div 256) % 256, h.ArCount % 256>>

\* binary.Write(&reqBuf, binary.BigEndian, request.Header), line 333
WriteHeader(h) ==
    U16(h.Id) \o U16(h.Flags) \o U16(h.QdCount) \o U16(h.AnCount)
        \o U16(h.NsCount) \o U16(h.ArCount)

\* binary.Read(responseReader, binary.BigEndian, &response.Header), line 362:
\* all twelve bytes or nothing; the error of a short buffer is dropped and the
\* header keeps its zero value
ReadHeader(b, i) ==
    IF Len(b) - i >= HeaderSize
    THEN [val |-> [Id |-> BigEndian(Slice(b, i, 2)),
                   Flags |-> BigEndian(Slice(b, i + 2, 2)),
                   QdCount |-> BigEndian(Slice(b, i + 4, 2)),
                   AnCount |-> BigEndian(Slice(b, i + 6, 2)),
                   NsCount |-> BigEndian(Slice(b, i + 8, 2)),
                   ArCount |-> BigEndian(Slice(b, i + 10, 2))],
          pos |-> i + HeaderSize, short |-> FALSE]
    ELSE [val |-> ZeroHeader, pos |-> IF i < Len(b) THEN Len(b) ELSE i, short |-> TRUE]

----------------------------------------------------------------------------
(* ValidateResponseHeader, lines 267-307 *)

\* the checks with ra read at the shift of rd (bit 8 instead of bit 7)
ChecksWrong(res, req) ==
    << [bad |-> res.Id # req.Id,             msg |-> "response id does not match request id"],
       [bad |-> res.QdCount # req.QdCount,   msg |-> "response qdcount does not match request qdcount"],
       [bad |-> res.AnCount = 0,             msg |-> "response ancount is 0"],
       [bad |-> res.NsCount # req.NsCount,   msg |-> "response nscount does not match request nscount"],
       [bad |-> res.ArCount # req.ArCount,   msg |-> "response arcount does not match request arcount"],
       [bad |-> res.Flags \div 32768 # 1,    msg |-> "response qr is not 1 (response)"],
       [bad |-> (res.Flags \div 2048) % 16 # 0, msg |-> "response opcode is not 0 (standard query)"],
       [bad |-> (res.Flags \div 1024) % 2 # 0, msg |-> "response aa is not 0 (not authoritative)"],
       [bad |-> (res.Flags \div 512) % 2 # 0, msg |-> "response tc is not 0 (not truncated)"],
       [bad |-> (res.Flags \div 256) % 2 # (req.Flags \div 256) % 2,
                                             msg |-> "response rd does not match request rd (recursion desired)"],
       [bad |-> (res.Flags \div 256) % 2 # 1, msg |-> "response ra is not 1 (recursion available)"],
       [bad |-> (res.Flags \div 16) % 8 # 0, msg |-> "response z is not 0"],
       [bad |-> res.Flags % 16 # 0,          msg |-> "response rcode is not 0 (no error)"] >>

\* The thirteen checks in source order: for each, whether the response violates
\* it, and the text it panics with.
Checks(res, req) ==
    << [bad |-> res.Id # req.Id,             msg |-> "response id does not match request id"],
       [bad |-> res.QdCount # req.QdCount,   msg |-> "response qdcount does not match request qdcount"],
       [bad |-> res.AnCount = 0,             msg |-> "response ancount is 0"],
       [bad |-> res.NsCount # req.NsCount,   msg |-> "response nscount does not match request nscount"],
       [bad |-> res.ArCount # req.ArCount,   msg |-> "response arcount does not match request arcount"],
       [bad |-> QR(res.Flags) # 1,           msg |-> "response qr is not 1 (response)"],
       [bad |-> OpCode(res.Flags) # 0,       msg |-> "response opcode is not 0 (standard query)"],
       [bad |-> AA(res.Flags) # 0,           msg |-> "response aa is not 0 (not authoritative)"],
       [bad |-> TC(res.Flags) # 0,           msg |-> "response tc is not 0 (not truncated)"],
       [bad |-> RD(res.Flags) # RD(req.Flags), msg |-> "response rd does not match request rd (recursion desired)"],
       [bad |-> RA(res.Flags) # 1,           msg |-> "response ra is not 1 (recursion available)"],
       [bad |-> Z(res.Flags) # 0,            msg |-> "response z is not 0"],
       [bad |-> RCode(res.Flags) # 0,        msg |-> "response rcode is not 0 (no error)"] >>

\* the last violated check instead of the first
LastFailure(checks) ==
    IF \E k \in 1 .. Len(checks) : checks[k].bad
    THEN CHOOSE k \in 1 .. Len(checks) :
             checks[k].bad /\ \A j \in k + 1 .. Len(checks) : ~checks[j].bad
    ELSE 0

\* the index of the check that panics: the first violated one, 0 when none is
FirstFailure(checks) ==
    IF \E k \in 1 .. Len(checks) : checks[k].bad
    THEN CHOOSE k \in 1 .. Len(checks) :
             checks[k].bad /\ \A j \in 1 .. k - 1 : ~checks[j].bad
    ELSE 0

\* the value ValidateResponseHeader panics with, "" when it returns
ValidateResponseHeader(resp, req) ==
    LET checks == Checks(resp.Header, req.Header)
        k == FirstFailure(checks)
    IN IF k = 0 THEN "" ELSE checks[k].msg

----------------------------------------------------------------------------
(* Inputs *)

\* every sequence over S of length at most n
SeqsUpTo(S, n) == UNION {[1 .. k -> S] : k \in 0 .. n}

\* b without its last `cut` bytes
Truncate(b, cut) == SubSeq(b, 1, IF cut < Len(b) THEN Len(b) - cut ELSE 0)

\* the bytes of arbitrary buffers: the terminator, label lengths / offsets 1 and
\* 2, the letter 'a', and 0xc0, the first byte of a pointer to an offset < 256
ByteAlphabet == {0, 1, 2, 97, PointerMask}

ArbitraryBufs == SeqsUpTo(ByteAlphabet, MaxBuf)

\* "a" and "a.b"
NameA == <<97>>
NameAB == <<97, Dot, 98>>
SampleNames == {NameA, NameAB}

\* a compression pointer to absolute offset k (k < 2^14)
Ptr(k) == <<PointerMask + k \div 256, k % 256>>

\* the header of the README's example response
ExampleResponseHeader ==
    [Id |-> 12345, Flags |-> 33152, QdCount |-> 1, AnCount |-> 2,
     NsCount |-> 0, ArCount |-> 0]

\* what precedes the first question of a message: the 12-byte header, and for
\* pad > 12 the bytes of earlier content that a decoder at a later name skips
Filler(pad) == WriteHeader(ExampleResponseHeader) \o [k \in 1 .. pad - HeaderSize |-> 7]

\* offsets of the first question: right after the header, and beyond 255 so that
\* a pointer to it needs the six high offset bits of its first byte
Pads == {HeaderSize, HeaderSize + 256}

RecordBytes(owner, type, ttl, rdlen, rdata) ==
    owner \o U16(type) \o U16(INClass) \o U32(ttl) \o U16(rdlen) \o rdata

\* RDATA of a record that follows a question for name N at offset pad
RDatas(pad, N) == {Ptr(pad), SerializeName(N), <<1, 98>> \o Ptr(pad), <<1, 2, 3, 4>>}

\* a message and the offsets a decoder may be started at
QuestionOnly(pad, N) ==
    [bytes |-> SerializeQuestion(Filler(pad), [QName |-> N, QType |-> NS, QClass |-> INClass]),
     starts |-> {pad}]

QuestionAndRecord(pad, N, type, ttl, rdlen, rdata) ==
    LET q == QuestionOnly(pad, N).bytes IN
    [bytes |-> q \o RecordBytes(Ptr(pad), type, ttl, rdlen, rdata),
     starts |-> {pad, Len(q), Len(q) + 12}]

\* a question and two NS records as in the README's example: the RDATA of the
\* first is a label and a pointer to the question's name, the RDATA of the
\* second a label and a pointer to the RDATA of the first
ChainedRecords(pad, N) ==
    LET q == QuestionOnly(pad, N).bytes
        first == RecordBytes(Ptr(pad), NS, 19818, 4, <<1, 98>> \o Ptr(pad))
        second == RecordBytes(Ptr(pad), NS, 19818, 4, <<1, 97>> \o Ptr(Len(q) + 12))
    IN [bytes |-> q \o first \o second,
        starts |-> {Len(q) + Len(first), Len(q) + Len(first) + 12}]

Messages ==
    {QuestionOnly(pad, N) : pad \in Pads, N \in SampleNames}
    \cup {ChainedRecords(pad, N) : pad \in Pads, N \in SampleNames}
    \cup UNION {UNION {UNION {
           {QuestionAndRecord(pad, N, type, 19818, rdlen, rdata) :
               rdlen \in {0, Len(rdata), Len(rdata) + 1}, type \in {A, NS, CNAME}}
           : rdata \in RDatas(pad, N)} : N \in SampleNames} : pad \in Pads}

\* buffer and start index of a codec call
CodecInputs ==
    {[b |-> b, at |-> i] : b \in ArbitraryBufs, i \in 0 .. MaxBuf}
    \cup UNION {{[b |-> Truncate(m.bytes, cut), at |-> i] : cut \in 0 .. MaxCut, i \in m.starts}
                : m \in Messages}

----------------------------------------------------------------------------
(* State shared by the specifications *)

ZeroRequest == [Header |-> ZeroHeader, Questions |-> <<>>]

ZeroResponse == [Header |-> ZeroHeader, Questions |-> <<>>, Answers |-> <<>>]

NoResult == [op |-> "", at |-> 0, r |-> Ok(<<>>, 0, FALSE)]

----------------------------------------------------------------------------
(* SpecCodec: one codec call on a reader over any buffer, at any index *)

CodecInit ==
    /\ \E in \in CodecInputs :
          /\ in.at <= Len(in.b)
          /\ buf = in.b
          /\ pos = in.at
    /\ pc = "ready"
    /\ urls = <<>>
    /\ request = ZeroRequest
    /\ reqBuf = <<>>
    /\ response = ZeroResponse
    /\ result = NoResult
    /\ failure = ""
    /\ log = <<>>

\* the call `op` returning r: the reader is left where the call left it
Call(op, r) ==
    /\ pc = "ready"
    /\ result' = [op |-> op, at |-> pos, r |-> r]
    /\ pos' = r.pos
    /\ pc' = "returned"
    /\ UNCHANGED <<urls, buf, request, reqBuf, response, failure, log>>

DoReadName == Call("ReadName", ReadName(buf, pos))

DoReadQuestion == Call("ReadQuestion", ReadQuestion(buf, pos))

DoReadResourceRecord == Call("ReadResourceRecord", ReadResourceRecord(buf, pos))

CodecNext == DoReadName \/ DoReadQuestion \/ DoReadResourceRecord

SpecCodec == CodecInit /\ [][CodecNext]_vars

----------------------------------------------------------------------------
(* SpecRoundTrip: SerializeName, then ReadName over what it wrote *)

\* a label of n bytes, 'a' and 'b' alternating
Label(n) == [k \in 1 .. n |-> 97 + (k % 2)]

\* label lengths: empty, short, 61 (which fills a name of three 63-byte labels
\* to the 255 octets of the protocol), the longest the wire format allows, one more,
\* the first whose length byte reads as a pointer, the first that wraps to 0
LabelLens == {0, 1, 61, 63, 64, 192, 256}

RECURSIVE Join(_)
\* labels joined by dots
Join(labels) ==
    IF Len(labels) = 1 THEN labels[1]
    ELSE labels[1] \o <<Dot>> \o Join(Tail(labels))

NameInputs ==
    {<<>>} \cup {Join([k \in 1 .. Len(ls) |-> Label(ls[k])]) :
                    ls \in SeqsUpTo(LabelLens, MaxLabels) \ {<<>>}}

RoundTripInit ==
    /\ \E N \in NameInputs : urls = <<N>>
    /\ pc = "encode"
    /\ buf = <<>>
    /\ pos = 0
    /\ request = ZeroRequest
    /\ reqBuf = <<>>
    /\ response = ZeroResponse
    /\ result = NoResult
    /\ failure = ""
    /\ log = <<>>

Encode ==
    /\ pc = "encode"
    /\ buf' = SerializeName(urls[1])
    /\ pos' = 0
    /\ pc' = "ready"
    /\ UNCHANGED <<urls, request, reqBuf, response, result, failure, log>>

RoundTripNext == Encode \/ DoReadName

SpecRoundTrip == RoundTripInit /\ [][RoundTripNext]_vars

----------------------------------------------------------------------------
(* SpecValidate: ValidateResponseHeader on any pair of headers *)

\* flag words built from their sub-fields; the multi-bit fields take a value
\* with only a high bit set, too
FlagWords ==
    {qr * 32768 + op * 2048 + aa * 1024 + tc * 512 + rd * 256 + ra * 128 + z * 16 + rc :
        qr \in {0, 1}, op \in {0, 1, 8}, aa \in {0, 1}, tc \in {0, 1},
        rd \in {0, 1}, ra \in {0, 1}, z \in {0, 4}, rc \in {0, 3}}

ValidateResponseHeaders ==
    {[Id |-> id, Flags |-> f, QdCount |-> qd, AnCount |-> an, NsCount |-> ns, ArCount |-> ar] :
        id \in {12345, 54321}, f \in FlagWords, qd \in {1, 2}, an \in {0, 2},
        ns \in {0, 1}, ar \in {0, 1}}

ValidateRequestHeaders ==
    {[Id |-> 12345, Flags |-> f, QdCount |-> 1, AnCount |-> 0, NsCount |-> ns, ArCount |-> 0] :
        f \in {0, 256}, ns \in {0, 1}}

ValidateInit ==
    /\ \E h \in ValidateRequestHeaders : request = [Header |-> h, Questions |-> <<>>]
    /\ \E h \in ValidateResponseHeaders :
          response = [Header |-> h, Questions |-> <<>>, Answers |-> <<>>]
    /\ pc = "validate"
    /\ urls = <<>>
    /\ buf = <<>>
    /\ pos = 0
    /\ reqBuf = <<>>
    /\ result = NoResult
    /\ failure = ""
    /\ log = <<>>

\* validation whose verdict is not acted on
ValidateIgnored ==
    /\ pc = "validate"
    /\ failure' = ""
    /\ pc' = "questions"
    /\ log' = Append(log, "validate")
    /\ UNCHANGED <<urls, buf, pos, request, reqBuf, response, result>>

\* line 363: the call panics or returns
Validate ==
    /\ pc = "validate"
    /\ LET msg == ValidateResponseHeader(response, request) IN
          /\ failure' = msg
          /\ pc' = IF msg = "" THEN "questions" ELSE "panic"
    /\ log' = Append(log, "validate")
    /\ UNCHANGED <<urls, buf, pos, request, reqBuf, response, result>>

SpecValidate == ValidateInit /\ [][Validate]_vars

----------------------------------------------------------------------------
(* Spec: main, lines 309-389.  The socket calls (339-357, 385) belong to the *)
(* transport; what they contribute is the datagram received.                 *)

\* the url lists main may be built with: line 310 names one
UrlLists ==
    {[k \in 1 .. n |-> IF k % 2 = 1 THEN NameAB ELSE NameA] : n \in 1 .. MaxUrls}

RECURSIVE SerializeQuestions(_, _)
\* the loop of lines 334-336
SerializeQuestions(b, questions) ==
    IF questions = <<>> THEN b
    ELSE SerializeQuestions(SerializeQuestion(b, Head(questions)), Tail(questions))

RECURSIVE Flatten(_)
Flatten(parts) == IF parts = <<>> THEN <<>> ELSE Head(parts) \o Flatten(Tail(parts))

\* headers a resolver may answer req with
ResponseHeaders(req) ==
    {[Id |-> id, Flags |-> f, QdCount |-> qd, AnCount |-> an, NsCount |-> 0, ArCount |-> 0] :
        id \in {req.Header.Id, 1}, f \in {33152, 33024},
        qd \in 0 .. MaxUrls, an \in 0 .. MaxAnswers}

\* resource records of an answer section: an NS record whose owner and RDATA are
\* pointers to the first question's name, and an A record with four address bytes
AnswerRecords ==
    {RecordBytes(Ptr(HeaderSize), NS, 19818, 2, Ptr(HeaderSize)),
     RecordBytes(Ptr(HeaderSize), A, 300, 4, <<1, 2, 3, 4>>)}

\* the datagrams the resolver may send: any header, the first k questions
\* echoed, any answers, the end cut off; and every buffer shorter than a header
Datagrams(req) ==
    LET whole ==
          {WriteHeader(h) \o SerializeQuestions(<<>>, SubSeq(req.Questions, 1, k)) \o Flatten(as) :
              h \in ResponseHeaders(req), k \in 0 .. Len(req.Questions),
              as \in SeqsUpTo(AnswerRecords, MaxAnswers)}
    IN {Truncate(m, cut) : m \in whole, cut \in 0 .. MaxCut}
       \cup {SubSeq(WriteHeader(h), 1, n) : h \in ResponseHeaders(req), n \in 0 .. HeaderSize - 1}

Init ==
    /\ urls \in UrlLists
    /\ pc = "build"
    /\ buf = <<>>
    /\ pos = 0
    /\ request = ZeroRequest
    /\ reqBuf = <<>>
    /\ response = ZeroResponse
    /\ result = NoResult
    /\ failure = ""
    /\ log = <<>>

\* lines 312-327
BuildRequest ==
    /\ pc = "build"
    /\ request' =
          [Header |-> [Id |-> 12345, Flags |-> 256, QdCount |-> Len(urls) % 65536,
                       AnCount |-> 0, NsCount |-> 0, ArCount |-> 0],
           Questions |-> [k \in 1 .. Len(urls) |->
                             [QName |-> urls[k], QType |-> NS, QClass |-> INClass]]]
    /\ pc' = "serialize"
    /\ log' = Append(log, "build")
    /\ UNCHANGED <<urls, buf, pos, reqBuf, response, result, failure>>

\* lines 331-336
SerializeRequest ==
    /\ pc = "serialize"
    /\ reqBuf' = SerializeQuestions(WriteHeader(request.Header), request.Questions)
    /\ pc' = "recv"
    /\ log' = Append(log, "serialize")
    /\ UNCHANGED <<urls, buf, pos, request, response, result, failure>>

\* lines 347-360: the query is sent, a datagram comes back, a reader is put on it
Receive ==
    /\ pc = "recv"
    /\ buf' \in Datagrams(request)
    /\ pos' = 0
    /\ pc' = "header"
    /\ log' = Append(log, "recv")
    /\ UNCHANGED <<urls, request, reqBuf, response, result, failure>>

\* line 362
ReadResponseHeader ==
    /\ pc = "header"
    /\ LET h == ReadHeader(buf, pos) IN
          /\ response' = [response EXCEPT !.Header = h.val]
          /\ pos' = h.pos
    /\ pc' = "validate"
    /\ log' = Append(log, "header")
    /\ UNCHANGED <<urls, buf, request, reqBuf, result, failure>>

\* a loop that stops one entry early
LoopStopsEarly(i, count) == i + 1 < count

\* the loop conditions of lines 366 and 375: i < int(count)
LoopContinues(i, count) == i < count

\* one pass through the loop head of line 366: another question, or on to 375
ReadResponseQuestion ==
    /\ pc = "questions"
    /\ IF LoopContinues(Len(response.Questions), response.Header.QdCount)
       THEN LET r == ReadQuestion(buf, pos) IN
            /\ result' = [op |-> "ReadQuestion", at |-> pos, r |-> r]
            /\ pos' = r.pos
            /\ log' = Append(log, "question")
            /\ IF r.kind = "ok"
               THEN /\ response' = [response EXCEPT !.Questions = Append(@, r.val)]
                    /\ UNCHANGED <<pc, failure>>
               ELSE /\ pc' = "panic"                                    \* 368-370
                    /\ failure' = r.err
                    /\ UNCHANGED response
       ELSE /\ pc' = "answers"
            /\ UNCHANGED <<pos, response, result, failure, log>>
    /\ UNCHANGED <<urls, buf, request, reqBuf>>

\* one pass through the loop head of line 375: another answer, or on to 383
ReadResponseAnswer ==
    /\ pc = "answers"
    /\ IF LoopContinues(Len(response.Answers), response.Header.AnCount)
       THEN LET r == ReadResourceRecord(buf, pos) IN
            /\ result' = [op |-> "ReadResourceRecord", at |-> pos, r |-> r]
            /\ pos' = r.pos
            /\ log' = Append(log, "answer")
            /\ IF r.kind = "ok"
               THEN /\ response' = [response EXCEPT !.Answers = Append(@, r.val)]
                    /\ UNCHANGED <<pc, failure>>
               ELSE /\ pc' = "panic"                                    \* 377-379
                    /\ failure' = r.err
                    /\ UNCHANGED response
       ELSE /\ pc' = "print"
            /\ UNCHANGED <<pos, response, result, failure, log>>
    /\ UNCHANGED <<urls, buf, request, reqBuf>>

\* line 383
PrintResponse ==
    /\ pc = "print"
    /\ pc' = "done"
    /\ log' = Append(log, "print")
    /\ UNCHANGED <<urls, buf, pos, request, reqBuf, response, result, failure>>

Next ==
    \/ BuildRequest
    \/ SerializeRequest
    \/ Receive
    \/ ReadResponseHeader
    \/ Validate
    \/ ReadResponseQuestion
    \/ ReadResponseAnswer
    \/ PrintResponse

Spec == Init /\ [][Next]_vars

----------------------------------------------------------------------------
(* Properties.  Each is stated from the wire format and the claim's words;   *)
(* what the code computed is read from the state.                            *)

Returned(op) == pc = "returned" /\ result.op = op

\* b holds a two-byte compression pointer at index i
PointerAt(b, i) == i + 1 < Len(b) /\ b[i + 1] >= 192

\* the 14-bit offset of the pointer at index i
TargetOf(b, i) == (b[i + 1] - 192) * 256 + b[i + 2]

\* C1 (SpecCodec): name decoding terminates on every buffer: ReadName never
\* recurses without end, and when the name starts with a pointer whose offset is
\* not strictly before the pointer (forward or self-referential) it returns an
\* error (MalformedPointer / PointerLoop).
C1_DecodingTerminates ==
    Returned("ReadName") =>
        /\ result.r.kind # "stack_overflow"
        /\ (PointerAt(buf, result.at) /\ TargetOf(buf, result.at) >= result.at)
              => result.r.kind = "err"

\* the labels of N are 1..63 bytes each and its wire form is at most 255 octets
WellFormed(N) ==
    /\ N # <<>>
    /\ \A k \in 1 .. Len(Split(N)) : Len(Split(N)[k]) \in 1 .. 63
    /\ Len(N) + 2 <= 255

\* C2 (SpecRoundTrip): for every well-formed name N, ReadName over
\* SerializeName(N) returns exactly N, without a trailing dot and without error.
C2_RoundTrip ==
    (Returned("ReadName") /\ WellFormed(urls[1])) =>
        /\ result.r.kind = "ok"
        /\ result.r.val = urls[1]
        /\ result.r.val[Len(result.r.val)] # Dot
        /\ result.r.pos = Len(buf)

\* a well-formed name of four labels that fills the 255 octets was round-tripped
C2_Witness ==
    /\ Returned("ReadName")
    /\ WellFormed(urls[1])
    /\ Len(Split(urls[1])) = 4
    /\ Len(buf) = 255
    /\ result.r.val = urls[1]

RECURSIVE SpelledEnd(_, _)
\* the index just past the name spelled out (labels, then a zero byte, no
\* pointer) at index j of b; -1 when no complete such name starts there
SpelledEnd(b, j) ==
    IF j >= Len(b) THEN -1
    ELSE IF b[j + 1] >= 192 THEN -1
    ELSE IF b[j + 1] = 0 THEN j + 1
    ELSE IF j + 1 + b[j + 1] > Len(b) THEN -1
    ELSE SpelledEnd(b, j + 1 + b[j + 1])

\* at index i, b names by pointer an earlier, fully spelled-out name
Compressed(b, i) ==
    /\ PointerAt(b, i)
    /\ TargetOf(b, i) < i
    /\ SpelledEnd(b, TargetOf(b, i)) # -1
    /\ SpelledEnd(b, TargetOf(b, i)) <= i

\* b with the pointer at index i replaced by the bytes of the name it points to
Inline(b, i) ==
    SubSeq(b, 1, i)
        \o SubSeq(b, TargetOf(b, i) + 1, SpelledEnd(b, TargetOf(b, i)))
        \o SubSeq(b, i + 3, Len(b))

\* where the RDATA of the record at index i starts: after the owner name and
\* the ten bytes of type, class, TTL and RDLength
RDataStart(b, i) == ReadName(b, i).pos + 10

\* C3 (SpecCodec): a name written as a pointer to an earlier, fully spelled-out
\* name decodes to the same string as that name spelled out in place of the
\* pointer, also when the pointer is the RDATA of an NS or CNAME record.
C3_CompressionEquivalence ==
    /\ (Returned("ReadName") /\ Compressed(buf, result.at)) =>
          LET inplace == ReadName(Inline(buf, result.at), result.at) IN
          /\ result.r.kind = inplace.kind
          /\ result.r.val = inplace.val
          /\ buf[TargetOf(buf, result.at) + 1] # 0 => result.r.kind = "ok"
    /\ (/\ Returned("ReadResourceRecord")
        /\ result.r.kind = "ok"
        /\ result.r.val.Type \in {NS, CNAME}
        /\ Compressed(buf, RDataStart(buf, result.at))) =>
          LET at == RDataStart(buf, result.at)
              inplace == ReadName(Inline(buf, at), at)
          IN /\ inplace.kind = "ok"
             /\ result.r.val.RData = inplace.val

\* an NS record was decoded whose RDATA is a pointer to the name "a.b" spelled
\* out at an offset beyond 255
C3_Witness ==
    /\ Returned("ReadResourceRecord")
    /\ result.r.kind = "ok"
    /\ result.r.val.Type = NS
    /\ Compressed(buf, RDataStart(buf, result.at))
    /\ TargetOf(buf, RDataStart(buf, result.at)) > 255
    /\ result.r.val.RData = NameAB

\* bit k (0 = least significant) of the 16-bit word f
Bit(f, k) == (f \div (2 ^ k)) % 2

\* The thirteen conditions of the claims, in their order, each TRUE when the
\* response header res meets it for the request header req.  The flag word is
\* laid out QR|OPCODE(4)|AA|TC|RD|RA|Z(3)|RCODE(4), most significant bit first.
Conditions(res, req) ==
    << res.Id = req.Id,
       res.QdCount = req.QdCount,
       res.AnCount > 0,
       res.NsCount = req.NsCount,
       res.ArCount = req.ArCount,
       Bit(res.Flags, 15) = 1,
       \A k \in 11 .. 14 : Bit(res.Flags, k) = 0,
       Bit(res.Flags, 10) = 0,
       Bit(res.Flags, 9) = 0,
       Bit(res.Flags, 8) = Bit(req.Flags, 8),
       Bit(res.Flags, 7) = 1,
       \A k \in 4 .. 6 : Bit(res.Flags, k) = 0,
       \A k \in 0 .. 3 : Bit(res.Flags, k) = 0 >>

ExampleRequestHeader ==
    [Id |-> 12345, Flags |-> 256, QdCount |-> 1, AnCount |-> 0, NsCount |-> 0, ArCount |-> 0]

Validated == pc \in {"questions", "panic"} /\ log = <<"validate">>

\* C4 (SpecValidate): validation reports no error exactly when all thirteen
\* conditions hold; the README's request/response pair is accepted.
C4_AcceptsExactly ==
    Validated =>
        /\ failure = "" <=>
              \A k \in 1 .. 13 : Conditions(response.Header, request.Header)[k]
        /\ (request.Header = ExampleRequestHeader /\ response.Header = ExampleResponseHeader)
              => (failure = "" /\ pc = "questions")

\* the example pair was validated and accepted
C4_Witness ==
    /\ Validated
    /\ request.Header = ExampleRequestHeader
    /\ response.Header = ExampleResponseHeader
    /\ failure = ""

\* C5 (SpecValidate): the failure reported is the one of the first violated
\* check in the order id, qdcount, ancount, nscount, arcount, QR, OpCode, AA, TC,
\* RD, RA, Z, RCode; the thirteen failures are pairwise distinct.
C5_FirstFailureWins ==
    Validated =>
        LET cond == Conditions(response.Header, request.Header)
            checks == Checks(response.Header, request.Header)
        IN /\ Cardinality({checks[k].msg : k \in 1 .. 13} \cup {""}) = 14
           /\ \A k \in 1 .. 13 :
                 (~cond[k] /\ \A j \in 1 .. k - 1 : cond[j]) => failure = checks[k].msg

\* a response that violates the id check, the ancount check and the rcode check
\* was reported as an id mismatch
C5_Witness ==
    /\ Validated
    /\ response.Header.Id # request.Header.Id
    /\ response.Header.AnCount = 0
    /\ response.Header.Flags % 16 # 0
    /\ failure = "response id does not match request id"

\* C6 (SpecCodec): ReadName, ReadQuestion and ReadResourceRecord return a value
\* or an error on every buffer and index; none panics or overflows the stack.
C6_NoUncontrolledAbort ==
    pc = "returned" => result.r.kind \in {"ok", "err"}

\* C7 (Spec): a datagram of fewer than 12 bytes fails with a TruncatedHeader
\* error before anything else: its header never reaches validation.
C7_ShortDatagramFails ==
    (Len(buf) < HeaderSize /\ pc \notin {"build", "serialize", "recv", "header"}) =>
        /\ pc = "panic"
        /\ failure \in {"Truncated", "TruncatedHeader"}
        /\ \A k \in 1 .. Len(log) : log[k] # "validate"

\* C8 (SpecCodec): when the buffer ends inside a field of a question or a
\* resource record, decoding fails with a truncation error; nothing with
\* zero-filled or partly filled fields is returned.
C8_AllOrNothing ==
    (pc = "returned" /\ result.op \in {"ReadQuestion", "ReadResourceRecord"}
        /\ result.r.short) => result.r.kind # "ok"

\* C9 (SpecCodec): after a CNAME or NS record is decoded without error, the
\* reader is at the start of its RDATA plus its declared RDLength.
C9_RDLengthConsumed ==
    (/\ Returned("ReadResourceRecord")
     /\ result.r.kind = "ok"
     /\ result.r.val.Type \in {CNAME, NS}) =>
        result.r.pos = RDataStart(buf, result.at) + result.r.val.RDLength

RECURSIVE QuestionsFrom(_, _, _)
\* n questions decoded one after the other from index i of b: their values and
\* the index reached, ok = FALSE when one of them cannot be decoded
QuestionsFrom(b, i, n) ==
    IF n = 0 THEN [ok |-> TRUE, vals |-> <<>>, pos |-> i]
    ELSE LET q == ReadQuestion(b, i) IN
         IF q.kind # "ok" THEN [ok |-> FALSE, vals |-> <<>>, pos |-> i]
         ELSE LET rest == QuestionsFrom(b, q.pos, n - 1) IN
              [ok |-> rest.ok, vals |-> <<q.val>> \o rest.vals, pos |-> rest.pos]

RECURSIVE RecordsFrom(_, _, _)
RecordsFrom(b, i, n) ==
    IF n = 0 THEN [ok |-> TRUE, vals |-> <<>>, pos |-> i]
    ELSE LET a == ReadResourceRecord(b, i) IN
         IF a.kind # "ok" THEN [ok |-> FALSE, vals |-> <<>>, pos |-> i]
         ELSE LET rest == RecordsFrom(b, a.pos, n - 1) IN
              [ok |-> rest.ok, vals |-> <<a.val>> \o rest.vals, pos |-> rest.pos]

\* C10 (Spec): whenever a response is printed it holds qdcount questions and
\* ancount answers, those found on the wire after the header in that order;
\* when one of them cannot be decoded no response is printed.
C10_CountsMatch ==
    LET qs == QuestionsFrom(buf, HeaderSize, response.Header.QdCount)
        as == RecordsFrom(buf, qs.pos, response.Header.AnCount)
    IN /\ pc \in {"print", "done"} =>
             /\ Len(response.Questions) = response.Header.QdCount
             /\ Len(response.Answers) = response.Header.AnCount
             /\ qs.ok /\ as.ok
             /\ response.Questions = qs.vals
             /\ response.Answers = as.vals
             /\ pos = as.pos
             /\ failure = ""
       /\ (pc \in {"answers", "print", "done"} /\ ~(qs.ok /\ as.ok)) =>
             /\ pc = "answers"
             /\ Len(response.Answers) < response.Header.AnCount

\* a response of two questions and two answers was printed
C10_Witness ==
    /\ pc = "done"
    /\ response.Header.QdCount = 2
    /\ response.Header.AnCount = 2
    /\ Len(response.Questions) = 2
    /\ Len(response.Answers) = 2

RECURSIVE NameStop(_, _)
\* the index of the byte that ends the label sequence starting at index j of b:
\* the terminating zero byte or the first byte of the first pointer; -1 when the
\* buffer ends before either
NameStop(b, j) ==
    IF j >= Len(b) THEN -1
    ELSE IF b[j + 1] = 0 \/ b[j + 1] >= 192 THEN j
    ELSE NameStop(b, j + 1 + b[j + 1])

\* C11 (SpecCodec): after ReadName succeeds the reader is one byte past the
\* terminating zero byte when the name had no pointer, and two bytes past the
\* first byte of its first pointer when it had one, wherever the pointer leads
\* and whatever the target holds.
C11_CursorEffect ==
    (Returned("ReadName") /\ result.r.kind = "ok") =>
        LET stop == NameStop(buf, result.at) IN
        /\ stop # -1
        /\ pos = result.r.pos
        /\ pos = IF buf[stop + 1] = 0 THEN stop + 1 ELSE stop + 2

\* a name of one label and a pointer was decoded whose target, at an earlier
\* offset, is itself a label followed by a pointer
C11_Witness ==
    /\ Returned("ReadName")
    /\ result.r.kind = "ok"
    /\ NameStop(buf, result.at) > result.at
    /\ PointerAt(buf, NameStop(buf, result.at))
    /\ pos = NameStop(buf, result.at) + 2
    /\ LET t == TargetOf(buf, NameStop(buf, result.at)) IN
          /\ t < result.at
          /\ NameStop(buf, t) > t
          /\ PointerAt(buf, NameStop(buf, t))

RECURSIVE WireGroups(_, _)
\* from index j on, b is a sequence of groups (a length byte in 1..63, then that
\* many label bytes) ended by one zero byte, which is the last byte of b
WireGroups(b, j) ==
    IF j >= Len(b) THEN FALSE
    ELSE IF b[j + 1] = 0 THEN j + 1 = Len(b)
    ELSE /\ b[j + 1] \in 1 .. 63
         /\ j + 1 + b[j + 1] < Len(b)
         /\ WireGroups(b, j + 1 + b[j + 1])

\* C12 (SpecRoundTrip): whatever name SerializeName is given, what it returns
\* (it has no way to fail) is a well-formed wire name: groups of a length byte in
\* 1..63 and that many bytes, ended by exactly one zero byte, the last byte; no
\* length byte for an empty label, none with its top two bits set, none wrapped.
C12_EmitsWellFormedNames ==
    pc \in {"ready", "returned"} => WireGroups(buf, 0)

\* the 16-bit big-endian field number k (1..6) of the header at the start of b
HeaderField(b, k) == b[2 * k - 1] * 256 + b[2 * k]

\* C13 (Spec): the serialized query starts with the twelve header bytes (id,
\* flags, qdcount, ancount, nscount, arcount, big-endian, in that order) and
\* goes on with the questions in their order; decoding the header gives the id
\* back, qdcount = number of questions, the other counts 0, and flags with
\* QR = 0, OpCode = 0, RD = the recursion-desired bit asked for, the rest 0.
C13_QueryHeaderRoundTrip ==
    pc \notin {"build", "serialize"} =>
        LET h == ReadHeader(reqBuf, 0).val
            qs == QuestionsFrom(reqBuf, HeaderSize, Len(urls))
        IN /\ Len(reqBuf) >= HeaderSize
           /\ HeaderField(reqBuf, 1) = request.Header.Id
           /\ HeaderField(reqBuf, 2) = request.Header.Flags
           /\ HeaderField(reqBuf, 3) = Len(urls)
           /\ \A k \in 4 .. 6 : HeaderField(reqBuf, k) = 0
           /\ h.Id = 12345 /\ h.Id = request.Header.Id
           /\ h.QdCount = Len(request.Questions)
           /\ h.AnCount = 0 /\ h.NsCount = 0 /\ h.ArCount = 0
           /\ QR(h.Flags) = 0 /\ OpCode(h.Flags) = 0
           /\ RD(h.Flags) = Bit(request.Header.Flags, 8) /\ RD(h.Flags) = 1
           /\ AA(h.Flags) = 0 /\ TC(h.Flags) = 0 /\ RA(h.Flags) = 0
           /\ Z(h.Flags) = 0 /\ RCode(h.Flags) = 0
           /\ qs.ok
           /\ qs.pos = Len(reqBuf)
           /\ \A k \in 1 .. Len(urls) :
                 qs.vals[k] = [QName |-> urls[k], QType |-> NS, QClass |-> INClass]

\* a query for two names was serialized
C13_Witness ==
    /\ pc = "recv"
    /\ Len(urls) = 2
    /\ Len(reqBuf) > HeaderSize
    /\ HeaderField(reqBuf, 3) = 2

RECURSIVE LabelsBefore(_, _)
\* the labels between index j of b and the byte that ends the label sequence,
\* each followed by a dot
LabelsBefore(b, j) ==
    IF j >= Len(b) \/ b[j + 1] = 0 \/ b[j + 1] >= 192 THEN <<>>
    ELSE SubSeq(b, j + 2, j + 1 + b[j + 1]) \o <<Dot>>
             \o LabelsBefore(b, j + 1 + b[j + 1])

\* C14 (SpecCodec): when ReadName reads labels L1..Lk (k >= 1) and then a
\* pointer whose target decodes to T, it returns L1.L2. ... .Lk.T; the labels
\* read before the pointer are kept.
C14_PointerKeepsLabels ==
    LET stop == NameStop(buf, result.at) IN
    (/\ Returned("ReadName")
     /\ stop > result.at
     /\ PointerAt(buf, stop)
     /\ ReadName(buf, TargetOf(buf, stop)).kind = "ok") =>
        /\ result.r.kind = "ok"
        /\ result.r.val = LabelsBefore(buf, result.at)
                              \o ReadName(buf, TargetOf(buf, stop)).val

\* the label "b" and a pointer to "a.b" were decoded as "b.a.b"
C14_Witness ==
    /\ Returned("ReadName")
    /\ NameStop(buf, result.at) = result.at + 2
    /\ PointerAt(buf, result.at + 2)
    /\ ReadName(buf, TargetOf(buf, result.at + 2)).val = NameAB
    /\ result.r.val = <<98, Dot>> \o NameAB

\* the positions of step s in the log
StepsOf(s) == {k \in 1 .. Len(log) : log[k] = s}

\* C15 (Spec): the header is validated after it is read and before any question
\* or answer is decoded: a ReadQuestion or ReadResourceRecord step occurs only
\* once the header has passed all thirteen checks; the response is printed only
\* after exactly qdcount questions and ancount answers were decoded without
\* error.
C15_PipelineOrder ==
    LET decodes == StepsOf("question") \cup StepsOf("answer") IN
    /\ \A v \in StepsOf("validate") : \E h \in StepsOf("header") : h < v
    /\ \A d \in decodes : \E v \in StepsOf("validate") : v < d
    /\ decodes # {} =>
          \A k \in 1 .. 13 : Conditions(response.Header, request.Header)[k]
    /\ pc = "panic" /\ decodes = {} /\ StepsOf("validate") # {} =>
          \E k \in 1 .. 13 : ~Conditions(response.Header, request.Header)[k]
    /\ StepsOf("print") # {} =>
          /\ Cardinality(StepsOf("question")) = response.Header.QdCount
          /\ Cardinality(StepsOf("answer")) = response.Header.AnCount
          /\ Len(response.Questions) = response.Header.QdCount
          /\ Len(response.Answers) = response.Header.AnCount
          /\ \A d \in decodes : \A p \in StepsOf("print") : d < p
          /\ failure = ""

\* a response was printed after the header, its validation, two questions and
\* an answer, in that order
C15_Witness ==
    /\ pc = "done"
    /\ log = <<"build", "serialize", "recv", "header", "validate",
               "question", "question", "answer", "print">>

====
